---- MODULE Spec2Model ----
(***************************************************************************)
(* Curve3D: parametric 3D curves (Circle, Ellipse, Helix), the random      *)
(* curve factory and the pipeline of main (build, report, filter circles,  *)
(* sort by radius, sum radii), modelled from src/Curve3D/Curve3D.cpp.      *)
(*                                                                         *)
(* Numbers.  A double is modelled as an integer: shape parameters count    *)
(* in units of 0.1 (param_dist's lower limit 0.1 is 1), the curve          *)
(* parameter t counts in units of PI/4.  Rounding, NaN and infinities are  *)
(* outside the model.  cos, sin and the division by 2*PI are kept          *)
(* symbolic: a coordinate is a term  coef * fn(arg).                       *)
(*                                                                         *)
(* Memory.  heap is the sequence of the curve objects allocated so far, an *)
(* address is an index of heap; curves and circles hold addresses, as      *)
(* the shared_ptr elements of the two vectors do.                          *)
(***************************************************************************)
EXTENDS Integers, Sequences, FiniteSets, TLC

\* ------------------------------------------------------------ bounds
\* The loop of main builds 15 curves; the model builds MaxCurves.
MaxCurves == 3
\* param_dist draws from [0.1, 10.0], i.e. 1..100 units; the model draws 1..MaxParam.
MaxParam == 2
\* A caller of the classes evaluates at t in 0..MaxT (units of PI/4) and makes at
\* most MaxCalls member calls on a curve.
MaxT == 1
MaxCalls == 3

\* ------------------------------------------------------------ constants
\* uniform_int_distribution<> type_dist(0, 2)
TypeLo == 0
TypeHi == 2
\* uniform_real_distribution<> param_dist(0.1, 10.0): the lower limit, in units of 0.1
ParamLo == 1
\* const double t = PI / 4, in units of PI/4
MainT == 1
\* return 1 (catch) and return 0
ExitFailure == 1
ExitSuccess == 0
\* std::accumulate(..., 0.0, ...)
AccInit == 0

\* An optional value: NoValue, or Some(x).
NoValue == <<>>
Some(x) == <<x>>
NoArg == "-"

VARIABLES heap, curves, circles, total_radius, out, err, exitCode, thrown, pc,
          attempt, calls

vars == <<heap, curves, circles, total_radius, out, err, exitCode, thrown, pc,
          attempt, calls>>

Range(s) == {s[k] : k \in 1..Len(s)}

\* ------------------------------------------------------------ Point3D terms
\* A coordinate: coef * fn(arg), fn one of cos, sin, "t/2pi" (arg / (2*PI)),
\* "1/2pi" (1 / (2*PI)), "0" (the literal 0.0).
Term(c, f, a) == [coef |-> c, fn |-> f, arg |-> a]
Zero == Term(0, "0", NoArg)
Point3D(px, py, pz) == [x |-> px, y |-> py, z |-> pz]

\* ------------------------------------------------------------ exceptions
Exception(ty, msg) == [type |-> ty, what |-> msg]
Throw(ty, msg) == [obj |-> NoValue, thrown |-> Some(Exception(ty, msg))]
Return(o) == [obj |-> Some(o), thrown |-> NoValue]

\* ------------------------------------------------------------ constructors
CircleMutStrict(r) ==
    IF r < 0 THEN Throw("invalid_argument", "Radius must be positive")
    ELSE Return([kind |-> "Circle", radius |-> r])

Circle(r) ==
    IF r <= 0 THEN Throw("invalid_argument", "Radius must be positive")
    ELSE Return([kind |-> "Circle", radius |-> r])

Ellipse(rx, ry) ==
    IF rx <= 0 \/ ry <= 0 THEN Throw("invalid_argument", "Radii must be positive")
    ELSE Return([kind |-> "Ellipse", radiusX |-> rx, radiusY |-> ry])

Helix(r, s) ==
    IF r <= 0 \/ s <= 0
    THEN Throw("invalid_argument", "Radius and step must be positive")
    ELSE Return([kind |-> "Helix", radius |-> r, step |-> s])

Kinds == {"Circle", "Ellipse", "Helix"}

\* A direct constructor call: kind(a) or kind(a, b).
Construct(kind, a, b) ==
    CASE kind = "Circle" -> Circle(a)
      [] kind = "Ellipse" -> Ellipse(a, b)
      [] kind = "Helix" -> Helix(a, b)

\* ------------------------------------------------------------ evaluation
getPoint(c, t) ==
    CASE c.kind = "Circle" ->
           Point3D(Term(c.radius, "cos", t), Term(c.radius, "sin", t), Zero)
      [] c.kind = "Ellipse" ->
           Point3D(Term(c.radiusX, "cos", t), Term(c.radiusY, "sin", t), Zero)
      [] c.kind = "Helix" ->
           Point3D(Term(c.radius, "cos", t), Term(c.radius, "sin", t),
                   Term(c.step, "t/2pi", t))

getDerivativeMutHelix(c, t) ==
    CASE c.kind = "Circle" ->
           Point3D(Term(-c.radius, "sin", t), Term(c.radius, "cos", t), Zero)
      [] c.kind = "Ellipse" ->
           Point3D(Term(-c.radiusX, "sin", t), Term(c.radiusY, "cos", t), Zero)
      [] c.kind = "Helix" ->
           Point3D(Term(-c.radius, "sin", t), Term(c.radius, "cos", t),
                   Term(c.step, "t/2pi", t))

getDerivative(c, t) ==
    CASE c.kind = "Circle" ->
           Point3D(Term(-c.radius, "sin", t), Term(c.radius, "cos", t), Zero)
      [] c.kind = "Ellipse" ->
           Point3D(Term(-c.radiusX, "sin", t), Term(c.radiusY, "cos", t), Zero)
      [] c.kind = "Helix" ->
           Point3D(Term(-c.radius, "sin", t), Term(c.radius, "cos", t),
                   Term(c.step, "1/2pi", NoArg))

\* What printInfo writes to std::cout; its parameter t is not used.
printInfo(c, t) ==
    CASE c.kind = "Circle" -> <<"Circle (r=", c.radius, ")">>
      [] c.kind = "Ellipse" -> <<"Ellipse (rx=", c.radiusX, ", ry=", c.radiusY, ")">>
      [] c.kind = "Helix" -> <<"Helix (r=", c.radius, ", step=", c.step, ")">>

getRadius(c) == c.radius

\* ------------------------------------------------------------ factory
type_dist == TypeLo..TypeHi
param_distMutZero == 0..MaxParam
param_dist == ParamLo..MaxParam

\* ty is the draw of type_dist, p1 and p2 the draws of param_dist the case makes.
createRandomCurve(ty, p1, p2) ==
    CASE ty = 0 -> Circle(p1)
      [] ty = 1 -> Ellipse(p1, p2)
      [] ty = 2 -> Helix(p1, p2)
      [] OTHER -> Throw("runtime_error", "Invalid curve type")

\* ------------------------------------------------------------ pipeline steps
\* dynamic_cast<Circle*>(curve.get()) is non-null
IsCircleMutNotEllipse(c) == c.kind # "Ellipse"
IsCircle(c) == c.kind = "Circle"

\* The filter loop: each element of cs in order, its address kept when it is a Circle
\* (static_pointer_cast shares the object, it allocates nothing).
RECURSIVE FilterCircles(_, _)
FilterCircles(h, cs) ==
    IF cs = <<>> THEN <<>>
    ELSE IF IsCircle(h[Head(cs)])
         THEN <<Head(cs)>> \o FilterCircles(h, Tail(cs))
         ELSE FilterCircles(h, Tail(cs))

\* The comparator of std::sort: a->getRadius() < b->getRadius()
Less(h, a, b) == getRadius(h[a]) < getRadius(h[b])

\* std::sort leaves the range a permutation of itself, ordered by the comparator;
\* the order of equivalent elements is unspecified, so every such arrangement is
\* an outcome.
SortOutcomes(h, cs) ==
    {s \in [1..Len(cs) -> Range(cs)] :
        /\ \A j, k \in 1..Len(cs) : j # k => s[j] # s[k]
        /\ \A j, k \in 1..Len(cs) : j < k => ~Less(h, s[k], s[j])}

\* std::accumulate(first, last, init, sum + circle->getRadius()), left to right
RECURSIVE accumulateMutSkipFirst(_, _, _)
accumulateMutSkipFirst(h, cs, init) ==
    IF Len(cs) <= 1 THEN init
    ELSE accumulateMutSkipFirst(h, Tail(cs), init + getRadius(h[cs[2]]))

RECURSIVE accumulate(_, _, _)
accumulate(h, cs, init) ==
    IF cs = <<>> THEN init
    ELSE accumulate(h, Tail(cs), init + getRadius(h[Head(cs)]))

\* operator<<(os, Point3D): the coordinates x, y, z in this order, each a term
\* written as its coefficient, function and argument.
Render(p) ==
    <<p.x.coef, p.x.fn, p.x.arg, p.y.coef, p.y.fn, p.y.arg, p.z.coef, p.z.fn, p.z.arg>>

BlockMutSwap(c, t) ==
    << <<"info", printInfo(c, t)>>,
       <<"Derivative", Render(getDerivative(c, t))>>,
       <<"Point", Render(getPoint(c, t))>> >>

\* The block main writes for one curve.
Block(c, t) ==
    << <<"info", printInfo(c, t)>>,
       <<"Point", Render(getPoint(c, t))>>,
       <<"Derivative", Render(getDerivative(c, t))>> >>

\* The radii main writes, one per element of cs in order.
RadiiEvents(h, cs) == [k \in 1..Len(cs) |-> <<"radius", <<getRadius(h[cs[k]])>>>>]

\* ------------------------------------------------------------ main
Init ==
    /\ heap = <<>>
    /\ curves = <<>>
    /\ circles = <<>>
    /\ total_radius = NoValue
    /\ out = <<>>
    /\ err = <<>>
    /\ exitCode = NoValue
    /\ thrown = NoValue
    /\ pc = "build"
    /\ attempt = NoValue
    /\ calls = <<>>

\* One iteration of the build loop with r the outcome of the construction:
\* push_back of the new object, or the exception leaves the try block.
BuildWith(r) ==
    /\ IF r.thrown = NoValue
       THEN /\ heap' = Append(heap, r.obj[1])
            /\ curves' = Append(curves, Len(heap) + 1)
            /\ UNCHANGED <<thrown, pc>>
       ELSE /\ thrown' = r.thrown
            /\ pc' = "catch"
            /\ UNCHANGED <<heap, curves>>
    /\ UNCHANGED <<circles, total_radius, out, err, exitCode, attempt, calls>>

BuildStep ==
    /\ pc = "build"
    /\ Len(curves) < MaxCurves
    /\ \E ty \in type_dist, p1 \in param_dist, p2 \in param_dist :
          BuildWith(createRandomCurve(ty, p1, p2))

\* Step 2 of main: the header line, then the block of every curve in the order
\* of the range-for over curves, all at t = PI/4.
RECURSIVE ReportEvents(_, _)
ReportEvents(h, cs) ==
    IF cs = <<>> THEN <<>>
    ELSE Block(h[Head(cs)], MainT) \o ReportEvents(h, Tail(cs))

Report ==
    /\ pc = "build"
    /\ Len(curves) = MaxCurves
    /\ out' = Append(out, <<"header", <<"Points and derivatives at t=PI/4:">>>>)
                 \o ReportEvents(heap, curves)
    /\ pc' = "filter"
    /\ UNCHANGED <<heap, curves, circles, total_radius, err, exitCode, thrown,
                   attempt, calls>>

\* The objects at the addresses cs, in order.
Objects(h, cs) == [k \in 1..Len(cs) |-> h[cs[k]]]

FilterMutCopy ==
    /\ pc = "filter"
    /\ heap' = heap \o Objects(heap, FilterCircles(heap, curves))
    /\ circles' = [k \in 1..Len(FilterCircles(heap, curves)) |-> Len(heap) + k]
    /\ pc' = "sort"
    /\ UNCHANGED <<curves, total_radius, out, err, exitCode, thrown,
                   attempt, calls>>

Filter ==
    /\ pc = "filter"
    /\ circles' = FilterCircles(heap, curves)
    /\ pc' = "sort"
    /\ UNCHANGED <<heap, curves, total_radius, out, err, exitCode, thrown,
                   attempt, calls>>

Sort ==
    /\ pc = "sort"
    /\ \E s \in SortOutcomes(heap, circles) : circles' = s
    /\ pc' = "sum"
    /\ UNCHANGED <<heap, curves, total_radius, out, err, exitCode, thrown,
                   attempt, calls>>

Accumulate ==
    /\ pc = "sum"
    /\ total_radius' = Some(accumulate(heap, circles, AccInit))
    /\ pc' = "radii"
    /\ UNCHANGED <<heap, curves, circles, out, err, exitCode, thrown,
                   attempt, calls>>

PrintRadii ==
    /\ pc = "radii"
    /\ out' = Append(out, <<"header", <<"Sorted circle radii:">>>>)
                 \o RadiiEvents(heap, circles)
    /\ pc' = "total"
    /\ UNCHANGED <<heap, curves, circles, total_radius, err, exitCode, thrown,
                   attempt, calls>>

PrintTotal ==
    /\ pc = "total"
    /\ out' = Append(out, <<"total", total_radius>>)
    /\ pc' = "return"
    /\ UNCHANGED <<heap, curves, circles, total_radius, err, exitCode, thrown,
                   attempt, calls>>

ReturnOk ==
    /\ pc = "return"
    /\ exitCode' = Some(ExitSuccess)
    /\ pc' = "done"
    /\ UNCHANGED <<heap, curves, circles, total_radius, out, err, thrown,
                   attempt, calls>>

CatchMutExitZero ==
    /\ pc = "catch"
    /\ err' = Append(err, <<"Error: ", thrown[1].what>>)
    /\ exitCode' = Some(ExitSuccess)
    /\ pc' = "done"
    /\ UNCHANGED <<heap, curves, circles, total_radius, out, thrown,
                   attempt, calls>>

\* catch (const std::exception& e): the message to std::cerr, return 1
Catch ==
    /\ pc = "catch"
    /\ err' = Append(err, <<"Error: ", thrown[1].what>>)
    /\ exitCode' = Some(ExitFailure)
    /\ pc' = "done"
    /\ UNCHANGED <<heap, curves, circles, total_radius, out, thrown,
                   attempt, calls>>

Pipeline ==
    \/ Report
    \/ Filter
    \/ Sort
    \/ Accumulate
    \/ PrintRadii
    \/ PrintTotal
    \/ ReturnOk

Next == BuildStep \/ Pipeline

\* main as written: every curve comes from createRandomCurve.
Spec == Init /\ [][Next]_vars

\* ------------------------------------------------------------ main, explicit curves
\* The arguments a caller can hand to a constructor.
CtorArgs == (0 - 1)..MaxParam

\* main with the curves constructed directly from arguments of any sign instead
\* of by the factory: the case in which a construction inside the try block throws.
ExplicitStep ==
    /\ pc = "build"
    /\ Len(curves) < MaxCurves
    /\ \E kind \in Kinds, a \in CtorArgs, b \in CtorArgs :
          BuildWith(Construct(kind, a, b))

NextExplicit == ExplicitStep \/ Pipeline \/ Catch

SpecExplicit == Init /\ [][NextExplicit]_vars

\* ------------------------------------------------------------ the classes, called directly
TVals == 0..MaxT

InitApi ==
    /\ heap = <<>>
    /\ curves = <<>>
    /\ circles = <<>>
    /\ total_radius = NoValue
    /\ out = <<>>
    /\ err = <<>>
    /\ exitCode = NoValue
    /\ thrown = NoValue
    /\ pc = "api"
    /\ attempt = NoValue
    /\ calls = <<>>

Args(kind, a, b) == IF kind = "Circle" THEN <<a>> ELSE <<a, b>>

\* new kind(args): the object exists only when the constructor returns.
ApiConstruct ==
    /\ pc = "api"
    /\ attempt = NoValue
    /\ \E kind \in Kinds, a \in CtorArgs, b \in CtorArgs :
          LET r == Construct(kind, a, b) IN
          /\ attempt' = Some([kind |-> kind, args |-> Args(kind, a, b)])
          /\ IF r.thrown = NoValue
             THEN heap' = Append(heap, r.obj[1]) /\ UNCHANGED thrown
             ELSE thrown' = r.thrown /\ UNCHANGED heap
    /\ UNCHANGED <<curves, circles, total_radius, out, err, exitCode, pc, calls>>

Call(a, op, t, res) == [obj |-> a, op |-> op, t |-> t, result |-> res]

\* A const member function leaves the object as it is.
ApiGetPointMutGrow ==
    /\ pc = "api"
    /\ Len(calls) < MaxCalls
    /\ \E a \in DOMAIN heap, t \in TVals :
          /\ calls' = Append(calls, Call(a, "getPoint", t, Some(getPoint(heap[a], t))))
          /\ heap' = [heap EXCEPT ![a] =
                         IF heap[a].kind = "Ellipse"
                         THEN [heap[a] EXCEPT !.radiusX = @ + 1]
                         ELSE [heap[a] EXCEPT !.radius = @ + 1]]
    /\ UNCHANGED <<curves, circles, total_radius, out, err, exitCode, thrown,
                   pc, attempt>>

ApiGetPoint ==
    /\ pc = "api"
    /\ Len(calls) < MaxCalls
    /\ \E a \in DOMAIN heap, t \in TVals :
          calls' = Append(calls, Call(a, "getPoint", t, Some(getPoint(heap[a], t))))
    /\ UNCHANGED <<heap, curves, circles, total_radius, out, err, exitCode, thrown,
                   pc, attempt>>

ApiGetDerivative ==
    /\ pc = "api"
    /\ Len(calls) < MaxCalls
    /\ \E a \in DOMAIN heap, t \in TVals :
          calls' = Append(calls, Call(a, "getDerivative", t, Some(getDerivative(heap[a], t))))
    /\ UNCHANGED <<heap, curves, circles, total_radius, out, err, exitCode, thrown,
                   pc, attempt>>

ApiPrintInfo ==
    /\ pc = "api"
    /\ Len(calls) < MaxCalls
    /\ \E a \in DOMAIN heap, t \in TVals :
          /\ calls' = Append(calls, Call(a, "printInfo", t, NoValue))
          /\ out' = Append(out, <<"info", printInfo(heap[a], t)>>)
    /\ UNCHANGED <<heap, curves, circles, total_radius, err, exitCode, thrown,
                   pc, attempt>>

NextApi == ApiConstruct \/ ApiGetPoint \/ ApiGetDerivative \/ ApiPrintInfo

SpecApi == InitApi /\ [][NextApi]_vars

\* ============================================================ properties
\* The parameters of a curve object, in constructor order.
Params(c) ==
    CASE c.kind = "Circle" -> <<c.radius>>
      [] c.kind = "Ellipse" -> <<c.radiusX, c.radiusY>>
      [] c.kind = "Helix" -> <<c.radius, c.step>>

AllPositive(ps) == \A k \in DOMAIN ps : ps[k] > 0

\* The place of address a in the sequence cs (addresses occur once).
Pos(cs, a) == CHOOSE k \in DOMAIN cs : cs[k] = a

\* C1: a constructor call throws invalid_argument when some argument is <= 0 and
\* returns the object with exactly these parameters when all are > 0; no object
\* with a non-positive parameter exists, and no evaluation call raises anything.
C1_ConstructorCheck ==
    /\ \A a \in DOMAIN heap : AllPositive(Params(heap[a]))
    /\ attempt # NoValue =>
          LET at == attempt[1] IN
          IF AllPositive(at.args)
          THEN /\ thrown = NoValue
               /\ Len(heap) = 1
               /\ heap[1].kind = at.kind
               /\ Params(heap[1]) = at.args
          ELSE /\ thrown # NoValue
               /\ thrown[1].type = "invalid_argument"
               /\ heap = <<>>
    /\ calls # <<>> => thrown = NoValue

\* Helix(1, 0) was attempted and threw: one argument positive, one not.
C1_Witness ==
    /\ attempt # NoValue
    /\ attempt[1].kind = "Helix"
    /\ attempt[1].args = <<1, 0>>
    /\ thrown # NoValue

\* C2: right after the filter loop, circles holds exactly the Circle elements of
\* curves, each once, in the order they have in curves.
C2_FilterExact ==
    pc = "sort" =>
       /\ \A k \in DOMAIN circles :
             /\ circles[k] \in Range(curves)
             /\ heap[circles[k]].kind = "Circle"
       /\ \A a \in Range(curves) :
             heap[a].kind = "Circle" => \E k \in DOMAIN circles : circles[k] = a
       /\ \A j, k \in DOMAIN circles :
             j < k => Pos(curves, circles[j]) < Pos(curves, circles[k])

\* A Circle, a curve of another variant, a Circle: the filter kept the two circles.
C2_Witness ==
    /\ pc = "sort"
    /\ Len(curves) = 3
    /\ heap[curves[1]].kind = "Circle"
    /\ heap[curves[2]].kind = "Helix"
    /\ heap[curves[3]].kind = "Circle"
    /\ Len(circles) = 2

\* C3: after the sort step circles is a permutation of the filtered sequence in
\* ascending radius order, and circles of equal radius keep the relative order
\* they had before the sort (the order of curves).
C3_SortStable ==
    pc = "sum" =>
       /\ Len(circles) = Len(FilterCircles(heap, curves))
       /\ Range(circles) = Range(FilterCircles(heap, curves))
       /\ \A j, k \in DOMAIN circles :
             j < k => getRadius(heap[circles[j]]) <= getRadius(heap[circles[k]])
       /\ \A j, k \in DOMAIN circles :
             (j < k /\ getRadius(heap[circles[j]]) = getRadius(heap[circles[k]]))
                => Pos(curves, circles[j]) < Pos(curves, circles[k])

\* The sum of the radii of the Circle elements among the first n of cs.
RECURSIVE CircleRadiiSum(_, _, _)
CircleRadiiSum(h, cs, n) ==
    IF n = 0 THEN 0
    ELSE CircleRadiiSum(h, cs, n - 1)
            + (IF h[cs[n]].kind = "Circle" THEN h[cs[n]].radius ELSE 0)

\* The collection [Circle(3), Ellipse(2,4), Circle(1), Helix(5,2), Circle(2)]
\* (the numbers as written; the sum scales with the unit).
ExampleHeap ==
    << [kind |-> "Circle", radius |-> 3],
       [kind |-> "Ellipse", radiusX |-> 2, radiusY |-> 4],
       [kind |-> "Circle", radius |-> 1],
       [kind |-> "Helix", radius |-> 5, step |-> 2],
       [kind |-> "Circle", radius |-> 2] >>

ExampleTotalIsSix ==
    \A s \in SortOutcomes(ExampleHeap, FilterCircles(ExampleHeap, <<1, 2, 3, 4, 5>>)) :
       /\ [k \in 1..Len(s) |-> getRadius(ExampleHeap[s[k]])] = <<1, 2, 3>>
       /\ accumulate(ExampleHeap, s, AccInit) = 6

\* C4: the total is the sum of the radii of exactly the Circle elements of the
\* collection (0 when there is none), it is the total that is written, and the
\* example collection gives sorted radii 1, 2, 3 and total 6.
C4_TotalIsCircleSum ==
    /\ total_radius # NoValue =>
          total_radius[1] = CircleRadiiSum(heap, curves, Len(curves))
    /\ pc \in {"return", "done"} =>
          out[Len(out)] = <<"total", <<CircleRadiiSum(heap, curves, Len(curves))>>>>
    /\ ExampleTotalIsSix

\* A finished run over Circle(1), one non-circle and Circle(2): the total is 3.
C4_Witness ==
    /\ pc = "done"
    /\ Len(circles) = 2
    /\ Len(curves) = 3
    /\ total_radius = <<3>>
    /\ out[Len(out)] = <<"total", <<3>>>>

\* C5: exit code 0 exactly when every construction succeeded and the pipeline
\* completed; when a construction throws, the run goes to the handler and nowhere
\* else, nothing has been or is written to standard output, and the process ends
\* with one message on the error stream and exit code 1.
C5_ExitCodes ==
    /\ pc = "done" => exitCode \in {Some(ExitSuccess), Some(ExitFailure)}
    /\ pc # "done" => exitCode = NoValue
    /\ exitCode = Some(ExitSuccess) =>
          /\ thrown = NoValue
          /\ Len(curves) = MaxCurves
          /\ out # <<>>
          /\ out[Len(out)][1] = "total"
          /\ err = <<>>
    /\ exitCode = Some(ExitFailure) => thrown # NoValue
    /\ thrown # NoValue =>
          /\ pc \in {"catch", "done"}
          /\ Len(curves) < MaxCurves
          /\ out = <<>>
          /\ circles = <<>>
          /\ total_radius = NoValue
          /\ pc = "done" =>
                /\ exitCode = Some(ExitFailure)
                /\ err = << <<"Error: ", thrown[1].what>> >>

\* Two curves were built, the third construction threw, the process has exited.
C5_Witness ==
    /\ pc = "done"
    /\ exitCode = Some(ExitFailure)
    /\ Len(curves) = 2
    /\ Len(err) = 1

\* Every draw of the factory returns a curve of a known variant with positive
\* parameters.
FactoryDrawsValid ==
    \A ty \in type_dist, p1 \in param_dist, p2 \in param_dist :
       /\ createRandomCurve(ty, p1, p2).thrown = NoValue
       /\ createRandomCurve(ty, p1, p2).obj[1].kind \in Kinds
       /\ AllPositive(Params(createRandomCurve(ty, p1, p2).obj[1]))

\* C6: every outcome of the factory is a Circle, Ellipse or Helix with positive
\* parameters; no draw makes it throw, main never reaches its handler and leaves
\* the build loop only with all MaxCurves curves built.
C6_FactoryNeverFails ==
    /\ FactoryDrawsValid
    /\ thrown = NoValue
    /\ pc # "catch"
    /\ exitCode # Some(ExitFailure)
    /\ \A a \in DOMAIN heap : AllPositive(Params(heap[a]))
    /\ pc # "build" => Len(curves) = MaxCurves
    /\ (pc = "build" /\ Len(curves) < MaxCurves) => ENABLED BuildStep

\* A finished run: all curves built, one of each variant.
C6_Witness ==
    /\ pc = "done"
    /\ Len(curves) = MaxCurves
    /\ {heap[a].kind : a \in DOMAIN heap} = Kinds

\* The closed forms of the variant table.
TablePosition(c, t) ==
    CASE c.kind = "Circle" ->
           [x |-> Term(c.radius, "cos", t), y |-> Term(c.radius, "sin", t), z |-> Zero]
      [] c.kind = "Ellipse" ->
           [x |-> Term(c.radiusX, "cos", t), y |-> Term(c.radiusY, "sin", t), z |-> Zero]
      [] c.kind = "Helix" ->
           [x |-> Term(c.radius, "cos", t), y |-> Term(c.radius, "sin", t),
            z |-> Term(c.step, "t/2pi", t)]

TableDerivative(c, t) ==
    CASE c.kind = "Circle" ->
           [x |-> Term(0 - c.radius, "sin", t), y |-> Term(c.radius, "cos", t), z |-> Zero]
      [] c.kind = "Ellipse" ->
           [x |-> Term(0 - c.radiusX, "sin", t), y |-> Term(c.radiusY, "cos", t),
            z |-> Zero]
      [] c.kind = "Helix" ->
           [x |-> Term(0 - c.radius, "sin", t), y |-> Term(c.radius, "cos", t),
            z |-> Term(c.step, "1/2pi", NoArg)]

\* d/dt of a term: (c cos t)' = -c sin t, (c sin t)' = c cos t,
\* (c t/2pi)' = c/2pi, and a term without t has derivative 0.
DTerm(u) ==
    CASE u.fn = "cos" -> Term(0 - u.coef, "sin", u.arg)
      [] u.fn = "sin" -> Term(u.coef, "cos", u.arg)
      [] u.fn = "t/2pi" -> Term(u.coef, "1/2pi", NoArg)
      [] OTHER -> Zero

DPoint(p) == [x |-> DTerm(p.x), y |-> DTerm(p.y), z |-> DTerm(p.z)]

\* C7: every getPoint call returned the table's position and every getDerivative
\* call the table's derivative, which is the term-by-term derivative of the
\* position; the planar variants have z = 0 and the z of the helix derivative
\* does not contain t.
C7_ClosedForms ==
    \A k \in DOMAIN calls :
       LET c == heap[calls[k].obj]
           t == calls[k].t
       IN  /\ calls[k].op = "getPoint" =>
                /\ calls[k].result = Some(TablePosition(c, t))
                /\ c.kind \in {"Circle", "Ellipse"} => calls[k].result[1].z = Zero
           /\ calls[k].op = "getDerivative" =>
                /\ calls[k].result = Some(TableDerivative(c, t))
                /\ calls[k].result = Some(DPoint(getPoint(c, t)))
                /\ c.kind \in {"Circle", "Ellipse"} => calls[k].result[1].z = Zero
                /\ c.kind = "Helix" =>
                      /\ calls[k].result[1].z.arg = NoArg
                      /\ \A t2 \in TVals : getDerivative(c, t2).z = calls[k].result[1].z

\* getPoint and getDerivative were both called on a Helix at t = 1.
C7_Witness ==
    /\ \E k \in DOMAIN calls :
          /\ calls[k].op = "getDerivative"
          /\ calls[k].t = 1
          /\ heap[calls[k].obj].kind = "Helix"
    /\ \E k \in DOMAIN calls :
          /\ calls[k].op = "getPoint"
          /\ calls[k].t = 1
          /\ heap[calls[k].obj].kind = "Helix"

\* The kind of the k-th event of a complete output over n curves, m of them
\* circles: a header line and n blocks, then a header line, m radii and the total.
ExpectedTag(k, n, m) ==
    IF k = 1 \/ k = 3 * n + 2 THEN "header"
    ELSE IF k <= 3 * n + 1 THEN <<"info", "Point", "Derivative">>[((k - 2) % 3) + 1]
    ELSE IF k <= 3 * n + 2 + m THEN "radius"
    ELSE "total"

\* C8: the output is, in this order, one block (description, position, derivative,
\* all at t = MainT) per curve in collection order, then the circle radii in
\* ascending order, then the total, each once (a header line precedes the blocks
\* and the radii); so no radius and no total is written before the last block,
\* nothing is written after the total, and the process then exits with code 0.
C8_OutputOrder ==
    LET n == MaxCurves
        m == Cardinality({a \in Range(curves) : heap[a].kind = "Circle"})
    IN  /\ Len(out) <= 3 * n + m + 3
        /\ \A k \in DOMAIN out : out[k][1] = ExpectedTag(k, n, m)
        /\ pc \in {"return", "done"} =>
              /\ Len(out) = 3 * n + m + 3
              /\ Len(curves) = n
              /\ Len(circles) = m
              /\ \A k \in 1..n :
                    LET c == heap[curves[k]] IN
                    /\ out[3 * k - 1] = <<"info", printInfo(c, MainT)>>
                    /\ out[3 * k] = <<"Point", Render(getPoint(c, MainT))>>
                    /\ out[3 * k + 1] = <<"Derivative", Render(getDerivative(c, MainT))>>
              /\ \A k \in 1..m :
                    out[3 * n + 2 + k] = <<"radius", <<getRadius(heap[circles[k]])>>>>
              /\ \A j, k \in 1..m :
                    j < k => out[3 * n + 2 + j][2][1] <= out[3 * n + 2 + k][2][1]
              /\ out[3 * n + m + 3] = <<"total", total_radius>>
        /\ pc = "return" => ENABLED ReturnOk
        /\ pc = "done" => exitCode = Some(ExitSuccess)

\* A finished run: a Helix, then Circle(2), then Circle(1); radii written 1, 2.
C8_Witness ==
    /\ pc = "done"
    /\ Len(curves) = 3
    /\ heap[curves[1]].kind = "Helix"
    /\ heap[curves[2]] = [kind |-> "Circle", radius |-> 2]
    /\ heap[curves[3]] = [kind |-> "Circle", radius |-> 1]
    /\ SubSeq(out, Len(out) - 2, Len(out))
          = << <<"radius", <<1>>>>, <<"radius", <<2>>>>, <<"total", <<3>>>> >>

\* C9: any two calls of the same operation on the same curve with the same t
\* returned the same result, whatever was called in between, and the curve still
\* has the parameters it was constructed with.
C9_Idempotent ==
    /\ \A j, k \in DOMAIN calls :
          (/\ calls[j].obj = calls[k].obj
           /\ calls[j].op = calls[k].op
           /\ calls[j].t = calls[k].t) => calls[j].result = calls[k].result
    /\ (attempt # NoValue /\ heap # <<>>) => Params(heap[1]) = attempt[1].args

\* getPoint(t), then another operation, then getPoint(t) again.
C9_Witness ==
    /\ Len(calls) = 3
    /\ calls[1].op = "getPoint"
    /\ calls[2].op \in {"getDerivative", "printInfo"}
    /\ calls[3].op = "getPoint"
    /\ calls[1].t = calls[3].t

\* After the filter loop: every element of circles is the address of an element
\* of curves, and no curve object was allocated besides those of the build loop.
CirclesShareCurves ==
    pc \in {"sort", "sum", "radii", "total", "return", "done"} =>
       /\ \A k \in DOMAIN circles : circles[k] \in Range(curves)
       /\ Len(heap) = Len(curves)
       /\ Len(curves) = MaxCurves

\* A step after the build loop leaves curves and every curve object as they are.
CollectionReadOnly == pc # "build" => (heap' = heap /\ curves' = curves)

====
